---- MODULE Spec2Model ----
(***************************************************************************)
(* Model of src/webui/mcp-integration.js: the MCPIntegration client.       *)
(*                                                                         *)
(* JavaScript runs one task at a time and a task is suspended only at an   *)
(* await, so every action below is the code that runs between two          *)
(* suspension points of one call (or of one background stream consumer).   *)
(* Text is a sequence of one-character tokens; a JSON record on the wire   *)
(* is the token sequence  { tag field field }.  A notification is recorded *)
(* with the value it has when the callbacks are invoked.                   *)
(***************************************************************************)
EXTENDS Integers, Sequences, FiniteSets, TLC

\* ---------------------------------------------------------------- bounds
MaxCalls == 2          \* calls of connect / sendMessage / endSession per run
MaxObservers == 1      \* onMessage registrations per run
MaxStreamObservers == 2   \* observers registered in a stream run
NumSessionIds == 2     \* distinct values _generateSessionId can return
MaxItems == 2          \* wire items per response body in the stream runs

\* ---------------------------------------------------------- JS constants
NULL == 0              \* null: no stream handle (handles are call numbers >= 1)
UNDEFINED == "undefined"
NL == "\n"
SP == " "

VARIABLES
    connected,         \* this.connected
    sessionId,         \* this.sessionId
    eventSource,       \* this.eventSource
    messageCallbacks,  \* this.messageCallbacks
    calls,             \* the async calls made so far, in call order
    readers,           \* per sendMessage call: its reader and processStream closure
    net,               \* history: the fetch requests issued, in order
    emitted,           \* history: per call, the notifications it passed to
                       \* _notifyCallbacks, in order
    delivered,         \* history: per call, the callback invocations it made,
                       \* in order
    server,            \* the kind of responses the agent answers a chat request with
    limit,             \* number of calls the environment makes in this run
    issued             \* history: number of distinct identifiers generated so far

vars == <<connected, sessionId, eventSource, messageCallbacks, calls, readers,
          net, emitted, delivered, server, limit, issued>>

\* ------------------------------------------------------------ text helpers
Whitespace == {SP, NL}

Last(s) == s[Len(s)]
Front(s) == SubSeq(s, 1, Len(s) - 1)

\* String.prototype.split('\n')
RECURSIVE Split(_)
Split(s) ==
    IF \A i \in 1..Len(s) : s[i] # NL
    THEN <<s>>
    ELSE LET i == CHOOSE j \in 1..Len(s) :
                      s[j] = NL /\ \A k \in 1..(j - 1) : s[k] # NL
         IN  <<SubSeq(s, 1, i - 1)>> \o Split(SubSeq(s, i + 1, Len(s)))

\* String.prototype.trim()
RECURSIVE Trim(_)
Trim(s) ==
    IF s = <<>> THEN s
    ELSE IF Head(s) \in Whitespace THEN Trim(Tail(s))
    ELSE IF Last(s) \in Whitespace THEN Trim(Front(s))
    ELSE s

\* ------------------------------------------------------------ JSON.parse
TypeTags == {"c", "t", "r", "f", "e", "u"}
Payloads == {"a", "b"}

TypeName(tag) ==
    CASE tag = "c" -> "content"
      [] tag = "t" -> "tool_call"
      [] tag = "r" -> "tool_result"
      [] tag = "f" -> "final"
      [] tag = "e" -> "error"
      [] OTHER     -> "unknown"

Field(inner, i) == IF i <= Len(inner) THEN inner[i] ELSE UNDEFINED

\* JSON.parse(line): whitespace between tokens is insignificant; the result
\* is the parsed event, or a SyntaxError (ok = FALSE).
JSONParse(line) ==
    LET toks  == SelectSeq(line, LAMBDA ch : ch \notin Whitespace)
        inner == SubSeq(toks, 2, Len(toks) - 1)
        wellFormed ==
            /\ Len(toks) >= 2
            /\ Head(toks) = "{"
            /\ Last(toks) = "}"
            /\ Len(inner) <= 3
            /\ Len(inner) >= 1 => inner[1] \in TypeTags
            /\ \A i \in 2..Len(inner) : inner[i] \in Payloads
    IN  IF ~wellFormed THEN [ok |-> FALSE]
        ELSE IF inner = <<>> THEN [ok |-> TRUE, type |-> UNDEFINED]
        ELSE IF inner[1] = "t"
        THEN [ok |-> TRUE, type |-> "tool_call",
              tool |-> Field(inner, 2), arguments |-> Field(inner, 3)]
        ELSE IF inner[1] = "r"
        THEN [ok |-> TRUE, type |-> "tool_result", result |-> Field(inner, 2)]
        ELSE [ok |-> TRUE, type |-> TypeName(inner[1]),
              content |-> Field(inner, 2)]

\* --------------------------------------------------- processStream (pure)
\* The switch of the for-loop body: the notifications one parsed event
\* produces and the toolCalls list afterwards.
\* (mutation) the tool call is notified but not accumulated
ToolCallsPush_skipped(toolCalls, event) == toolCalls

ToolCallsPush(toolCalls, event) ==
    Append(toolCalls, [tool |-> event.tool, arguments |-> event.arguments])

\* (mutation) a content record is forwarded under its wire type
UpdateNote_wireType(event) == [type |-> "content", content |-> event.content]

\* lines 91-96: the notification of a content record
UpdateNote(event) == [type |-> "update", content |-> event.content]

Dispatch(event, toolCalls) ==
    CASE event.type = "content" ->
            [toolCalls |-> toolCalls, notes |-> <<UpdateNote(event)>>]
      [] event.type = "tool_call" ->
            [toolCalls |-> ToolCallsPush(toolCalls, event),
             notes |-> <<[type |-> "tool_call", tool |-> event.tool,
                          arguments |-> event.arguments]>>]
      [] event.type = "tool_result" ->
            [toolCalls |-> toolCalls,
             notes |-> <<[type |-> "tool_result", result |-> event.result]>>]
      [] event.type = "final" ->
            [toolCalls |-> toolCalls,
             notes |-> <<[type |-> "final", content |-> event.content,
                          toolCalls |-> toolCalls]>>]
      [] event.type = "error" ->
            [toolCalls |-> toolCalls,
             notes |-> <<[type |-> "error", error |-> event.content]>>]
      [] OTHER ->
            [toolCalls |-> toolCalls, notes |-> <<>>]

\* (mutation) a line that does not parse is reported to the observers
ProcessLine_reportsParseError(line, toolCalls) ==
    IF Trim(line) = <<>> THEN [toolCalls |-> toolCalls, notes |-> <<>>]
    ELSE LET event == JSONParse(line)
         IN  IF event.ok THEN Dispatch(event, toolCalls)
             ELSE [toolCalls |-> toolCalls,
                   notes |-> <<[type |-> "error", error |-> "parse"]>>]

\* One iteration of  for (const line of lines).
ProcessLine(line, toolCalls) ==
    IF Trim(line) = <<>> THEN [toolCalls |-> toolCalls, notes |-> <<>>]
    ELSE LET event == JSONParse(line)
         IN  IF event.ok THEN Dispatch(event, toolCalls)
             ELSE [toolCalls |-> toolCalls, notes |-> <<>>]

RECURSIVE ProcessLines(_, _)
ProcessLines(lines, toolCalls) ==
    IF lines = <<>> THEN [toolCalls |-> toolCalls, notes |-> <<>>]
    ELSE LET first == ProcessLine(Head(lines), toolCalls)
             rest  == ProcessLines(Tail(lines), first.toolCalls)
         IN  [toolCalls |-> rest.toolCalls, notes |-> first.notes \o rest.notes]

\* (mutation) the incomplete line is dropped instead of kept
KeepIncomplete_dropped(lines) == <<>>

\* receivedText = lines.pop() || ''
KeepIncomplete(lines) == IF Last(lines) = <<>> THEN <<>> ELSE Last(lines)

\* One iteration of the while-loop for a chunk that decodes to `text`.
ProcessChunk(receivedText, toolCalls, text) ==
    LET lines == Split(receivedText \o text)
        res   == ProcessLines(Front(lines), toolCalls)
    IN  [receivedText |-> KeepIncomplete(lines),
         toolCalls    |-> res.toolCalls,
         notes        |-> res.notes]

\* ------------------------------------------------------------ environment
SessionIds == 1..NumSessionIds
\* typeof callback; the observers are numbered in the order of registration
Callbacks == {"function", "object"}
Messages == {"hi"}
HealthOutcomes == {"ok", "status", "reject"}   \* 2xx, non-2xx, fetch rejects
PostOutcomes == {"ok", "status", "reject"}
DeleteOutcomes == {"resolve", "reject"}        \* any status, fetch rejects

Rec(tag, fields) == <<"{", tag>> \o fields \o <<"}">>

\* A response of the agent: the body and the positions at which the
\* transport may end a chunk (the end of the body is always one).
Response(body, cuts) == [body |-> body, cuts |-> cuts]

\* The response of the lifecycle runs: a final record, two tool calls and
\* a second final record, cut in the middle of the first tool call.
LifecycleResponses ==
    { Response(Rec("f", <<"b">>) \o <<NL>> \o
               Rec("t", <<"a", "b">>) \o <<NL>> \o
               Rec("t", <<"b", "a">>) \o <<NL>> \o
               Rec("f", <<"a">>) \o <<NL>>, {7}) }

\* Wire items the bodies of the stream runs are concatenated from.
Items ==
    { Rec("c", <<"a">>) \o <<NL>>,
      Rec("t", <<"a", "b">>) \o <<NL>>,
      Rec("r", <<"b">>) \o <<NL>>,
      Rec("e", <<"a">>) \o <<NL>>,
      Rec("f", <<"a">>) \o <<NL>>,
      Rec("f", <<"b">>),                 \* a record without its newline
      Rec("u", <<"a">>) \o <<NL>>,       \* a record of an unknown type
      <<"x", NL>>,                       \* a line that is not JSON
      <<SP>>,
      <<NL>> }

RECURSIVE Concat(_)
Concat(ss) == IF ss = <<>> THEN <<>> ELSE Head(ss) \o Concat(Tail(ss))

StreamBodies ==
    UNION { { Concat(ss) : ss \in [1..n -> Items] } : n \in 0..MaxItems }

\* Responses of the stream runs: every body, cut at any positions.
StreamResponses == { Response(b, 1..Len(b)) : b \in StreamBodies }

Responses(kind) ==
    IF kind = "stream" THEN StreamResponses ELSE LifecycleResponses

\* ------------------------------------------------------------------ state
NewCall(op, pc, ret) ==
    [op |-> op, pc |-> pc, ret |-> ret,
     wasConnected |-> connected,   \* history: this.connected at the call
     sid |-> sessionId,            \* history: this.sessionId at the call
     outcome |-> "none",           \* history: how the awaited fetch ended
     connectResult |-> "none"]     \* what the implicit connect() resolved to

NoReader ==
    [state |-> "none", body |-> <<>>, cuts |-> {}, pos |-> 0,
     receivedText |-> <<>>, toolCalls |-> <<>>]

\* constructor
InitClient ==
    /\ sessionId = 1
    /\ issued = 1
    /\ connected = FALSE
    /\ eventSource = NULL
    /\ messageCallbacks = <<>>
    /\ calls = <<>>
    /\ readers = <<>>
    /\ net = <<>>
    /\ emitted = [c \in 1..(MaxCalls + 1) |-> <<>>]
    /\ delivered = [c \in 1..(MaxCalls + 1) |-> <<>>]

Init == InitClient /\ server = "lifecycle" /\ limit = MaxCalls

InitStream == InitClient /\ server = "stream" /\ limit = 1

\* (mutation) the loop over the observers stops after the first one
NotifyCallbacks_firstOnly(c, notes) ==
    LET n == IF messageCallbacks = <<>> THEN 0 ELSE 1
        fanout(note) == [i \in 1..n |-> [obs |-> messageCallbacks[i], note |-> note]]
        RECURSIVE All(_)
        All(ns) == IF ns = <<>> THEN <<>> ELSE fanout(Head(ns)) \o All(Tail(ns))
    IN  /\ emitted' = [emitted EXCEPT ![c] = @ \o notes]
        /\ delivered' = [delivered EXCEPT ![c] = @ \o All(notes)]

\* _notifyCallbacks(data) for each of `notes`, on behalf of call c
NotifyCallbacks(c, notes) ==
    LET n == Len(messageCallbacks)
        fanout(note) == [i \in 1..n |-> [obs |-> messageCallbacks[i], note |-> note]]
        RECURSIVE All(_)
        All(ns) == IF ns = <<>> THEN <<>> ELSE fanout(Head(ns)) \o All(Tail(ns))
    IN  /\ emitted' = [emitted EXCEPT ![c] = @ \o notes]
        /\ delivered' = [delivered EXCEPT ![c] = @ \o All(notes)]

\* onMessage(callback)
OnMessage ==
    \E callback \in Callbacks :
        /\ Len(messageCallbacks) <
              (IF server = "stream" THEN MaxStreamObservers ELSE MaxObservers)
        /\ messageCallbacks' = IF callback = "function"
                               THEN Append(messageCallbacks, Len(messageCallbacks) + 1)
                               ELSE messageCallbacks
        /\ UNCHANGED <<connected, sessionId, eventSource, calls, readers,
                       net, emitted, delivered, server, limit, issued>>

\* this.eventSource.close() on a stream handle
Close(rs, es) ==
    [i \in 1..Len(rs) |->
        IF i = es /\ rs[i].state = "reading"
        THEN [rs[i] EXCEPT !.state = "closed"] ELSE rs[i]]

\* ------------------------------------------------- connect and sendMessage
\* A fetch settles in a task of its own and the continuations it resumes run
\* as microtasks of that task: a connect() awaited by sendMessage and the
\* continuation of that sendMessage are one step.

\* the fetch of the health check
HealthRequest(c) == [call |-> c, method |-> "GET", url |-> "health", sid |-> NULL]

\* lines 24-34: what connect() resolves to for an outcome of the fetch
ConnectResult(outcome) == IF outcome = "ok" THEN "true" ELSE "false"

\* (mutation) the status of the health response is not looked at
ConnectState_anyStatus(outcome, conn) ==
    IF outcome \in {"ok", "status"} THEN TRUE ELSE conn

\* line 29
ConnectState(outcome, conn) == IF outcome = "ok" THEN TRUE ELSE conn

\* line 19: the value of  if (this.connected) return;
ConnectNoop == UNDEFINED

\* (mutation) connect() starts a new session
Connect_newSession ==
    /\ Len(calls) < limit
    /\ LET c == Len(calls) + 1
       IN  IF connected
           THEN /\ calls' = Append(calls, NewCall("connect", "done", ConnectNoop))
                /\ net' = net
           ELSE /\ calls' = Append(calls, NewCall("connect", "health", "pending"))
                /\ net' = Append(net, HealthRequest(c))
    /\ readers' = Append(readers, NoReader)
    /\ sessionId' \in {sid \in SessionIds : sid <= issued + 1}
    /\ issued' = IF sessionId' > issued THEN sessionId' ELSE issued
    /\ UNCHANGED <<connected, eventSource, messageCallbacks,
                   emitted, delivered, server, limit>>

\* connect(), up to its first suspension
Connect ==
    /\ Len(calls) < limit
    /\ LET c == Len(calls) + 1
       IN  IF connected
           THEN /\ calls' = Append(calls, NewCall("connect", "done", ConnectNoop))
                /\ net' = net
           ELSE /\ calls' = Append(calls, NewCall("connect", "health", "pending"))
                /\ net' = Append(net, HealthRequest(c))
    /\ readers' = Append(readers, NoReader)
    /\ UNCHANGED <<connected, sessionId, eventSource, messageCallbacks,
                   emitted, delivered, server, limit, issued>>

\* (mutation) sendMessage never connects implicitly
NeedsConnect_never(conn) == FALSE

\* line 39
NeedsConnect(conn) == ~conn

\* (mutation) the result of the implicit connect() is not looked at
ConnectFailed_unchecked(result) == FALSE

\* line 41: the condition of  if (!connected) return;
ConnectFailed(result) == result # "true"

\* line 41: the value of  if (!connected) return;
SendAborted == UNDEFINED

\* line 51: the fetch of the chat request
ChatRequest(c, sid) == [call |-> c, method |-> "POST", url |-> "chat", sid |-> sid]

\* lines 41-57 for call c of cs, whose implicit connect() resolved to
\* `result`: the silent return, or the try block up to the await of the
\* chat request; rs are the readers after this.connected was set
AfterConnect(c, cs, result) ==
    IF ConnectFailed(result)
    THEN /\ calls' = [cs EXCEPT ![c].pc = "done", ![c].ret = SendAborted,
                                ![c].connectResult = result]
         /\ readers' = readers \o (IF c > Len(readers) THEN <<NoReader>> ELSE <<>>)
         /\ net' = net
    ELSE /\ calls' = [cs EXCEPT ![c].pc = "post", ![c].connectResult = result]
         /\ readers' = (IF eventSource # NULL THEN Close(readers, eventSource)
                        ELSE readers)
                           \o (IF c > Len(readers) THEN <<NoReader>> ELSE <<>>)
         /\ net' = Append(net, ChatRequest(c, sessionId))

\* sendMessage(message), up to its first suspension
SendMessage ==
    \E message \in Messages :
        /\ Len(calls) < limit
        /\ LET c  == Len(calls) + 1
               cs == Append(calls, NewCall("sendMessage", "start", "pending"))
           IN  IF NeedsConnect(connected)
               THEN IF connected
                    THEN AfterConnect(c, cs, ConnectNoop)
                    ELSE /\ calls' = [cs EXCEPT ![c].pc = "health"]
                         /\ net' = Append(net, HealthRequest(c))
                         /\ readers' = Append(readers, NoReader)
               ELSE AfterConnect(c, cs, "true")
        /\ UNCHANGED <<connected, sessionId, eventSource, messageCallbacks,
                       emitted, delivered, server, limit, issued>>

\* connect() resumed by the answer of the health check, and after it the
\* sendMessage that awaits it
ConnectResume(c, outcome) ==
    /\ calls[c].pc = "health"
    /\ connected' = ConnectState(outcome, connected)
    /\ IF calls[c].op = "connect"
       THEN /\ calls' = [calls EXCEPT ![c].pc = "done", ![c].outcome = outcome,
                                      ![c].ret = ConnectResult(outcome)]
            /\ UNCHANGED <<readers, net>>
       ELSE AfterConnect(c, [calls EXCEPT ![c].outcome = outcome],
                         ConnectResult(outcome))
    /\ UNCHANGED <<sessionId, eventSource, messageCallbacks, emitted, delivered,
                   server, limit, issued>>

\* lines 156-163: the catch block of sendMessage
SendFailed(reason) ==
    [type |-> "error", error |-> <<"Failed to send message", reason>>]

\* lines 64-68 and 153: the reader and the closure of processStream
NewReader(response) ==
    [state |-> "reading", body |-> response.body, cuts |-> response.cuts, pos |-> 0,
     receivedText |-> <<>>, toolCalls |-> <<>>]

\* (mutation) the status of the chat response is not looked at
ResponseOk_anyStatus(outcome) == outcome # "reject"

\* lines 57-61: the fetch resolved and response.ok holds
ResponseOk(outcome) == outcome = "ok"

\* (mutation) processStream() is awaited: sendMessage stays suspended
SendMessageResponse_awaitsStream(c, outcome, response) ==
    /\ calls[c].pc = "post"
    /\ IF ResponseOk(outcome)
       THEN /\ readers' = [readers EXCEPT ![c] = NewReader(response)]
            /\ calls' = [calls EXCEPT ![c].pc = "stream", ![c].outcome = outcome]
            /\ UNCHANGED <<emitted, delivered>>
       ELSE /\ NotifyCallbacks(c, <<SendFailed(outcome)>>)
            /\ calls' = [calls EXCEPT ![c].pc = "done", ![c].ret = "false",
                                      ![c].outcome = outcome]
            /\ UNCHANGED readers
    /\ UNCHANGED <<connected, sessionId, eventSource, messageCallbacks, net,
                   server, limit, issued>>

\* sendMessage resumed by the answer of the chat request: on an OK status
\* processStream() runs up to its first reader.read() and true is returned
SendMessageResponse(c, outcome, response) ==
    /\ calls[c].pc = "post"
    /\ IF ResponseOk(outcome)
       THEN /\ readers' = [readers EXCEPT ![c] = NewReader(response)]
            /\ calls' = [calls EXCEPT ![c].pc = "done", ![c].ret = "true",
                                      ![c].outcome = outcome]
            /\ UNCHANGED <<emitted, delivered>>
       ELSE /\ NotifyCallbacks(c, <<SendFailed(outcome)>>)
            /\ calls' = [calls EXCEPT ![c].pc = "done", ![c].ret = "false",
                                      ![c].outcome = outcome]
            /\ UNCHANGED readers
    /\ UNCHANGED <<connected, sessionId, eventSource, messageCallbacks, net,
                   server, limit, issued>>

\* ---------------------------------------------------------- processStream
\* lines 73-141: reader.read() resolves with a chunk of k characters
ProcessStreamChunk(c, k) ==
    /\ readers[c].state = "reading"
    /\ k \in 1..(Len(readers[c].body) - readers[c].pos)
    /\ readers[c].pos + k \in readers[c].cuts \cup {Len(readers[c].body)}
    /\ LET r    == readers[c]
           text == SubSeq(r.body, r.pos + 1, r.pos + k)
           res  == ProcessChunk(r.receivedText, r.toolCalls, text)
       IN  /\ readers' = [readers EXCEPT ![c].pos = r.pos + k,
                                         ![c].receivedText = res.receivedText,
                                         ![c].toolCalls = res.toolCalls]
           /\ NotifyCallbacks(c, res.notes)
    /\ UNCHANGED <<connected, sessionId, eventSource, messageCallbacks, calls,
                   net, server, limit, issued>>

\* (mutation) the buffered rest is processed as a last line at the end
ProcessStreamDone_flushes(c) ==
    /\ readers[c].state = "reading"
    /\ readers[c].pos = Len(readers[c].body)
    /\ LET res == ProcessLine(readers[c].receivedText, readers[c].toolCalls)
       IN  /\ readers' = [readers EXCEPT ![c].state = "done",
                                         ![c].toolCalls = res.toolCalls]
           /\ NotifyCallbacks(c, res.notes)
    /\ UNCHANGED <<connected, sessionId, eventSource, messageCallbacks, calls,
                   net, server, limit, issued>>

\* line 75: reader.read() resolves with done
ProcessStreamDone(c) ==
    /\ readers[c].state = "reading"
    /\ readers[c].pos = Len(readers[c].body)
    /\ readers' = [readers EXCEPT ![c].state = "done"]
    /\ UNCHANGED <<connected, sessionId, eventSource, messageCallbacks, calls,
                   net, emitted, delivered, server, limit, issued>>

\* lines 143-149: reader.read() rejects
StreamError == [type |-> "error", error |-> <<"Stream error", "read">>]

\* (mutation) the catch is inside the loop: the loop reads on after a failure
ProcessStreamError_readsOn(c) ==
    /\ readers[c].state = "reading"
    /\ Len(emitted[c]) < 3
    /\ readers' = readers
    /\ NotifyCallbacks(c, <<StreamError>>)
    /\ UNCHANGED <<connected, sessionId, eventSource, messageCallbacks, calls,
                   net, server, limit, issued>>

ProcessStreamError(c) ==
    /\ readers[c].state = "reading"
    /\ readers' = [readers EXCEPT ![c].state = "failed"]
    /\ NotifyCallbacks(c, <<StreamError>>)
    /\ UNCHANGED <<connected, sessionId, eventSource, messageCallbacks, calls,
                   net, server, limit, issued>>

\* ------------------------------------------------------------- endSession
\* line 192: the fetch of the termination request
DeleteRequest(c, sid) == [call |-> c, method |-> "DELETE", url |-> "chat", sid |-> sid]

\* _generateSessionId(): Math.random() may return any of its values, one
\* returned before or a new one; identifiers are numbered in the order of
\* their first appearance
GenerateSessionId(n) == {sid \in SessionIds : sid <= n + 1}

\* (mutation) endSession does not look at the connection state
EndSessionNoop_never(conn) == FALSE

\* line 182
EndSessionNoop(conn) == ~conn

\* endSession(), up to its first suspension
EndSession ==
    /\ Len(calls) < limit
    /\ LET c == Len(calls) + 1
       IN  IF EndSessionNoop(connected)
           THEN /\ calls' = Append(calls, NewCall("endSession", "done", UNDEFINED))
                /\ readers' = Append(readers, NoReader)
                /\ UNCHANGED <<eventSource, net>>
           ELSE /\ calls' = Append(calls, NewCall("endSession", "delete", "pending"))
                /\ readers' = Append(IF eventSource # NULL
                                     THEN Close(readers, eventSource)
                                     ELSE readers, NoReader)
                /\ eventSource' = NULL
                /\ net' = Append(net, DeleteRequest(c, sessionId))
    /\ UNCHANGED <<connected, sessionId, messageCallbacks, emitted, delivered,
                   server, limit, issued>>

\* lines 196-201: what the answer of the termination request does to
\* <<sessionId, connected>>
EndSessionReset(outcome, sid, conn) ==
    IF outcome = "resolve"
    THEN {<<new, FALSE>> : new \in GenerateSessionId(issued)}
    ELSE {<<sid, conn>>}

\* endSession resumed by the answer of the termination request
EndSessionResponse(c, outcome) ==
    /\ calls[c].pc = "delete"
    /\ \E st \in EndSessionReset(outcome, sessionId, connected) :
          /\ sessionId' = st[1]
          /\ connected' = st[2]
          /\ issued' = IF st[1] > issued THEN st[1] ELSE issued
    /\ calls' = [calls EXCEPT ![c].pc = "done", ![c].ret = UNDEFINED,
                              ![c].outcome = outcome]
    /\ UNCHANGED <<eventSource, messageCallbacks, readers, net, emitted,
                   delivered, server, limit>>

\* ------------------------------------------------------------------- runs
Calls == 1..Len(calls)

Next ==
    \/ OnMessage
    \/ Connect
    \/ \E c \in Calls, outcome \in HealthOutcomes : ConnectResume(c, outcome)
    \/ SendMessage
    \/ \E c \in Calls, outcome \in PostOutcomes, response \in Responses(server) :
          SendMessageResponse(c, outcome, response)
    \/ \E c \in Calls : \E k \in 1..Len(readers[c].body) : ProcessStreamChunk(c, k)
    \/ \E c \in Calls : ProcessStreamDone(c)
    \/ \E c \in Calls : ProcessStreamError(c)
    \/ EndSession
    \/ \E c \in Calls, outcome \in DeleteOutcomes : EndSessionResponse(c, outcome)

Spec == Init /\ [][Next]_vars

\* The lifecycle runs with one more call, for the interleavings of an
\* endSession with a sendMessage on a client connected before.
InitSession == InitClient /\ server = "lifecycle" /\ limit = MaxCalls + 1

SpecSession == InitSession /\ [][Next]_vars

\* One sendMessage exchange over the bodies built from Items.
NextStream ==
    \/ OnMessage
    \/ SendMessage
    \/ \E c \in Calls, outcome \in HealthOutcomes : ConnectResume(c, outcome)
    \/ \E c \in Calls, outcome \in PostOutcomes, response \in Responses(server) :
          SendMessageResponse(c, outcome, response)
    \/ \E c \in Calls : \E k \in 1..Len(readers[c].body) : ProcessStreamChunk(c, k)
    \/ \E c \in Calls : ProcessStreamDone(c)

SpecStream == InitStream /\ [][NextStream]_vars

\* ============================================================= properties
\* The notifications call c has emitted so far, in order.
NotesOf(c) == emitted[c]

\* What call c has received of its response body so far.
Received(c) == SubSeq(readers[c].body, 1, readers[c].pos)

Streaming(c) == readers[c].state \in {"reading", "done"}

IsRequest(i, c, method) == net[i].call = c /\ net[i].method = method

RequestsBy(c, method) == {i \in 1..Len(net) : IsRequest(i, c, method)}

\* Call c returns in this step.
Returns(c) ==
    /\ c \in 1..Len(calls')
    /\ calls'[c].pc = "done"
    /\ c \in Calls => calls[c].pc # "done"

\* C1 -- chunk-boundary invariance: whatever the chunks a response body
\* arrives in, the notifications its stream consumer has emitted after any
\* number of chunks are the ones emitted when the text received so far
\* arrives as one single chunk.
C1_ChunkBoundaryInvariance ==
    \A c \in Calls :
        Streaming(c) => NotesOf(c) = ProcessChunk(<<>>, <<>>, Received(c)).notes

\* A chunk has ended in the middle of a JSON record after an earlier line
\* was dispatched, and the rest of the body is still to come.
C1_Witness ==
    \E c \in Calls :
        /\ readers[c].state = "reading"
        /\ readers[c].pos < Len(readers[c].body)
        /\ readers[c].receivedText # <<>>
        /\ Head(readers[c].receivedText) = "{"
        /\ NotesOf(c) # <<>>

\* C2 -- at most one stream consumption is active per client at any time.
C2_AtMostOneActiveStream ==
    Cardinality({c \in Calls : readers[c].state = "reading"}) <= 1

\* The {tool, arguments} pairs of the tool_call records among the first n
\* parsed events.
RECURSIVE ToolCallRecords(_, _)
ToolCallRecords(events, n) ==
    IF n = 0 THEN <<>>
    ELSE ToolCallRecords(events, n - 1) \o
         (IF events[n].type = "tool_call"
          THEN <<[tool |-> events[n].tool, arguments |-> events[n].arguments]>>
          ELSE <<>>)

\* The records on the complete lines of a received text, in order.
RecordsOf(text) ==
    LET lines  == Front(Split(text))
        parsed == [i \in 1..Len(lines) |-> JSONParse(lines[i])]
    IN  SelectSeq(parsed, LAMBDA e : e.ok)

\* For every final record of a received text, the tool_call records before it.
ExpectedToolCalls(text) ==
    LET events == RecordsOf(text)
        RECURSIVE Upto(_)
        Upto(n) == IF n = 0 THEN <<>>
                   ELSE Upto(n - 1) \o
                        (IF events[n].type = "final"
                         THEN <<ToolCallRecords(events, n - 1)>> ELSE <<>>)
    IN  Upto(Len(events))

FinalToolCalls(c) ==
    LET finals == SelectSeq(NotesOf(c), LAMBDA n : n.type = "final")
    IN  [i \in 1..Len(finals) |-> finals[i].toolCalls]

\* C3 -- the toolCalls list of every final notification of an exchange is,
\* in order, exactly the {tool, arguments} pairs of the tool_call records
\* received earlier in that exchange, and none of another exchange.
C3_FinalToolCalls ==
    \A c \in Calls :
        readers[c].state # "none" => FinalToolCalls(c) = ExpectedToolCalls(Received(c))

\* A final notification with two tool calls has been delivered in one
\* exchange while another exchange has announced a tool call of its own.
C3_Witness ==
    \E c, d \in Calls :
        /\ c # d
        /\ \E j \in 1..Len(NotesOf(d)) : NotesOf(d)[j].type = "tool_call"
        /\ \E i \in 1..Len(NotesOf(c)) :
              /\ NotesOf(c)[i].type = "final"
              /\ Len(NotesOf(c)[i].toolCalls) >= 2
        /\ messageCallbacks # <<>>

\* C4 -- connect() on a connected client issues no health check, leaves the
\* client connected and returns true.
C4_ConnectIdempotent ==
    \A c \in Calls :
        (calls[c].op = "connect" /\ calls[c].wasConnected) =>
            /\ RequestsBy(c, "GET") = {}
            /\ calls[c].ret = "true"

\* C5 -- a connect() whose health check is unreachable or answers non-OK
\* resolves to false without throwing and does not change the connection
\* state: a client that is disconnected when the answer arrives stays so.
C5_ConnectFailure ==
    [][\A c \in Calls :
          (calls[c].op = "connect" /\ Returns(c) /\ calls'[c].outcome \in {"status", "reject"})
              => (calls'[c].ret = "false" /\ connected' = connected)]_vars

C5_Witness ==
    \E c \in Calls :
        /\ calls[c].op = "connect"
        /\ calls[c].outcome = "status"
        /\ calls[c].ret = "false"
        /\ ~connected

\* The implicit connect() of sendMessage call c has failed and c returned.
SendAbortedCall(c) ==
    /\ calls[c].op = "sendMessage"
    /\ calls[c].pc = "done"
    /\ calls[c].connectResult = "false"

Silent(c) ==
    /\ RequestsBy(c, "POST") = {}
    /\ delivered[c] = <<>>
    /\ emitted[c] = <<>>

C7_OneImplicitConnect ==
    \A c \in Calls :
        calls[c].op = "sendMessage" =>
            /\ Cardinality(RequestsBy(c, "GET")) = (IF calls[c].wasConnected THEN 0 ELSE 1)
            /\ \A i \in RequestsBy(c, "POST") :
                  ~calls[c].wasConnected =>
                      /\ calls[c].outcome # "none"
                      /\ calls[c].connectResult = "true"
                      /\ \E j \in RequestsBy(c, "GET") : j < i

\* One sendMessage has connected implicitly and issued its chat request,
\* and a later one, made while connected, has issued its chat request too.
C7_Witness ==
    \E c, d \in Calls :
        /\ calls[c].op = "sendMessage" /\ ~calls[c].wasConnected
        /\ RequestsBy(c, "POST") # {}
        /\ calls[d].op = "sendMessage" /\ calls[d].wasConnected
        /\ RequestsBy(d, "POST") # {}

\* C8 -- the session identifier held when an endSession call returns
\* differs from the one held when the call was made (stated for the calls
\* that pass the connection check of line 182; the others are the no-op
\* of C9).
C8_EndSessionRotatesId ==
    [][\A c \in Calls :
          (calls[c].op = "endSession" /\ calls[c].wasConnected /\ Returns(c))
              => sessionId' # calls[c].sid]_vars

\* C9 -- endSession on a client that is not connected issues no request,
\* does not throw and changes nothing of the client.
C9_EndSessionNoop ==
    [][\A c \in 1..Len(calls') :
          (calls'[c].op = "endSession" /\ c \notin Calls /\ ~connected) =>
              /\ calls'[c].pc = "done"
              /\ calls'[c].ret = UNDEFINED
              /\ net' = net
              /\ readers' = Append(readers, NoReader)
              /\ UNCHANGED <<connected, sessionId, eventSource, messageCallbacks,
                             emitted, delivered>>]_vars

\* endSession has returned on a client that never issued a request.
C9_Witness ==
    \E c \in Calls :
        /\ calls[c].op = "endSession"
        /\ ~calls[c].wasConnected
        /\ calls[c].pc = "done"
        /\ net = <<>>

\* C10 -- when an endSession call made on a connected client returns, the
\* client is disconnected, also when the termination request failed.
C10_EndSessionDisconnects ==
    [][\A c \in Calls :
          (calls[c].op = "endSession" /\ calls[c].wasConnected /\ Returns(c))
              => ~connected']_vars

\* The callback invocations that deliver `notes`, one after the other, to
\* the first n observers in the order of their registration.
RECURSIVE Deliveries(_, _)
Deliveries(notes, n) ==
    IF notes = <<>> THEN <<>>
    ELSE [i \in 1..n |-> [obs |-> i, note |-> Head(notes)]] \o Deliveries(Tail(notes), n)

\* C11 -- a sendMessage whose chat request answers non-OK or fails resolves
\* false, has started no stream consumption, and its only notification is
\* one error notification, received once by every observer registered when
\* the answer arrived.
C11_SendFailure ==
    \A c \in Calls :
        (calls[c].op = "sendMessage" /\ calls[c].outcome \in {"status", "reject"}
            /\ calls[c].connectResult = "true") =>
            /\ calls[c].pc = "done"
            /\ calls[c].ret = "false"
            /\ readers[c].state = "none"
            /\ Len(emitted[c]) = 1
            /\ emitted[c][1].type = "error"
            /\ \E n \in 0..Len(messageCallbacks) :
                  delivered[c] = Deliveries(emitted[c], n)

\* An observer has received the error notification of a chat request that
\* was answered with a non-OK status.
C11_Witness ==
    \E c \in Calls :
        /\ calls[c].op = "sendMessage"
        /\ calls[c].connectResult = "true"
        /\ calls[c].outcome = "status"
        /\ calls[c].ret = "false"
        /\ Len(delivered[c]) = 1

Occurrences(seq, x) == Cardinality({i \in 1..Len(seq) : seq[i] = x})

\* C12 -- a failed read of the response stream yields exactly one error
\* notification for the failure and ends the consumption: the reader is
\* not read again and the error is the last notification of the exchange.
C12_StreamFailure ==
    \A c \in Calls :
        /\ readers[c].state = "failed" =>
              /\ Occurrences(emitted[c], StreamError) = 1
              /\ Last(emitted[c]) = StreamError
        /\ Occurrences(emitted[c], StreamError) > 0 => readers[c].state = "failed"

\* A read has failed in the middle of an exchange, after a chunk was read
\* and a notification was delivered, with records still to come.
C12_Witness ==
    \E c \in Calls :
        /\ readers[c].state = "failed"
        /\ readers[c].pos > 0
        /\ readers[c].pos < Len(readers[c].body)
        /\ Len(emitted[c]) >= 2
        /\ Len(delivered[c]) >= 2

\* A received text without its complete lines that are neither blank nor
\* valid JSON.
WithoutInvalidLines(text) ==
    LET lines == Split(text)
        valid == SelectSeq(Front(lines),
                           LAMBDA l : Trim(l) = <<>> \/ JSONParse(l).ok)
    IN  Concat([i \in 1..Len(valid) |-> valid[i] \o <<NL>>]) \o Last(lines)

\* The positions of the complete lines of a text that are not valid JSON.
InvalidLines(text) ==
    LET lines == Split(text)
    IN  {i \in 1..(Len(lines) - 1) : Trim(lines[i]) # <<>> /\ ~JSONParse(lines[i]).ok}

\* C13 -- a complete line that is not valid JSON yields no notification and
\* does not stop the stream: the notifications of an exchange are the ones
\* of the same text with its invalid lines taken out.
C13_InvalidLineSkipped ==
    \A c \in Calls :
        Streaming(c) =>
            NotesOf(c) = ProcessChunk(<<>>, <<>>, WithoutInvalidLines(Received(c))).notes

\* The first line received was not valid JSON and a record after it has
\* been dispatched.
C13_Witness ==
    \E c \in Calls :
        /\ Streaming(c)
        /\ 1 \in InvalidLines(Received(c))
        /\ WithoutInvalidLines(Received(c)) # Received(c)
        /\ NotesOf(c) # <<>>
        /\ delivered[c] # <<>>

\* The notifications call c emits in this step.
NewNotes(c) == SubSeq(emitted'[c], Len(emitted[c]) + 1, Len(emitted'[c]))

\* C14 -- every notification is delivered to all registered observers, in
\* the order of their registration, before the next notification is
\* delivered to any observer: the callback invocations of a step are, for
\* each notification in turn, one invocation of every observer in turn.
C14_DeliveryOrder ==
    [][\A c \in DOMAIN emitted :
          /\ messageCallbacks = [i \in 1..Len(messageCallbacks) |-> i]
          /\ delivered'[c] =
                delivered[c] \o Deliveries(NewNotes(c), Len(messageCallbacks))]_vars

\* Two notifications of one exchange have each been delivered to two
\* observers.
C14_Witness ==
    \E c \in Calls :
        /\ Len(messageCallbacks) = 2
        /\ Len(emitted[c]) = 2
        /\ emitted[c][1] # emitted[c][2]
        /\ Len(delivered[c]) = 4

\* The notification the dispatch table assigns to a record, without the
\* tool calls a final notification carries.
ExpectedNote(event) ==
    CASE event.type = "content"     -> <<[type |-> "update", content |-> event.content]>>
      [] event.type = "tool_call"   -> <<[type |-> "tool_call", tool |-> event.tool,
                                          arguments |-> event.arguments]>>
      [] event.type = "tool_result" -> <<[type |-> "tool_result", result |-> event.result]>>
      [] event.type = "final"       -> <<[type |-> "final", content |-> event.content]>>
      [] event.type = "error"       -> <<[type |-> "error", error |-> event.content]>>
      [] OTHER                      -> <<>>

NoteShape(note) ==
    IF note.type = "final" THEN [type |-> "final", content |-> note.content]
    ELSE note

\* C16 -- the complete non-blank lines are dispatched one by one, in order:
\* content gives update, tool_call gives tool_call, tool_result gives
\* tool_result, final gives final, error gives error, and a record of any
\* other type gives nothing and does not stop the stream.
C16_DispatchTable ==
    \A c \in Calls :
        Streaming(c) =>
            LET events == RecordsOf(Received(c))
            IN  [i \in 1..Len(NotesOf(c)) |-> NoteShape(NotesOf(c)[i])] =
                    Concat([i \in 1..Len(events) |-> ExpectedNote(events[i])])

\* A record of an unknown type was received, then a content record, and
\* the only notification is the update of the content record.
C16_Witness ==
    \E c \in Calls :
        /\ Streaming(c)
        /\ Len(RecordsOf(Received(c))) = 2
        /\ RecordsOf(Received(c))[1].type = "unknown"
        /\ RecordsOf(Received(c))[2].type = "content"
        /\ Len(NotesOf(c)) = 1
        /\ NotesOf(c)[1].type = "update"

\* C15 -- the session identifier changes only when endSession is resumed
\* by the answer of its termination request; no other step changes it, and
\* every chat request carries the identifier current when it is issued, so
\* the chat requests between two changes carry the same one.
C15_SessionIdFrame ==
    [][/\ sessionId' # sessionId =>
             \E c \in Calls : /\ calls[c].op = "endSession"
                              /\ calls[c].pc = "delete"
                              /\ calls'[c].pc = "done"
       /\ (Len(net') > Len(net) /\ Last(net').method = "POST") =>
             /\ Last(net').sid = sessionId
             /\ sessionId' = sessionId]_vars

\* A chat request was issued under the first identifier and a later
\* endSession has replaced the identifier.
C15_Witness ==
    /\ sessionId # 1
    /\ \E i \in 1..Len(net) : net[i].method = "POST" /\ net[i].sid = 1
    /\ \E c \in Calls : calls[c].op = "endSession" /\ calls[c].pc = "done"

\* C17 -- sendMessage has returned true in every state in which the stream
\* consumption of its exchange exists, from the state before the first read
\* on: its return does not wait for the stream, and true is returned only
\* for an accepted chat request whose consumption was started.
C17_ReturnsBeforeStream ==
    \A c \in Calls :
        calls[c].op = "sendMessage" =>
            /\ readers[c].state # "none" => calls[c].pc = "done" /\ calls[c].ret = "true"
            /\ calls[c].ret = "true" =>
                  /\ calls[c].outcome = "ok"
                  /\ readers[c].state # "none"
            /\ (calls[c].ret = "true" /\ readers[c].pos = 0) => emitted[c] = <<>>

\* sendMessage has returned true, a notification of its exchange was
\* delivered after that, and the stream has not reached its end.
C17_Witness ==
    \E c \in Calls :
        /\ calls[c].op = "sendMessage"
        /\ calls[c].ret = "true"
        /\ readers[c].state = "reading"
        /\ readers[c].pos < Len(readers[c].body)
        /\ delivered[c] # <<>>

\* The types the switch of processStream has a case for.
DispatchedTypes == {"content", "tool_call", "tool_result", "final", "error"}

\* C20 -- only newline-terminated lines are parsed: when the stream has
\* ended, the notifications are as many as the dispatched records on the
\* newline-terminated lines of the body, and what follows the last newline
\* is still in the buffer, unparsed.
C20_PartialLineDiscarded ==
    \A c \in Calls :
        readers[c].state = "done" =>
            /\ Len(NotesOf(c)) =
                  Len(SelectSeq(RecordsOf(readers[c].body),
                                LAMBDA e : e.type \in DispatchedTypes))
            /\ readers[c].receivedText = Last(Split(readers[c].body))

\* A stream has ended after a dispatched line, with a valid final record
\* without its newline left in the buffer, and no final was notified.
C20_Witness ==
    \E c \in Calls :
        /\ readers[c].state = "done"
        /\ JSONParse(readers[c].receivedText).ok
        /\ JSONParse(readers[c].receivedText).type = "final"
        /\ delivered[c] # <<>>
        /\ \A i \in 1..Len(NotesOf(c)) : NotesOf(c)[i].type # "final"

\* C18 -- when an endSession of a connected client returns after its
\* termination request was answered, no stream consumption started under
\* the ended session is still reading.
C18_EndSessionClosesStream ==
    [][\A d \in Calls :
          (calls[d].op = "endSession" /\ calls[d].pc = "delete"
              /\ calls'[d].pc = "done" /\ calls'[d].outcome = "resolve") =>
              \A c \in Calls :
                  (\E i \in RequestsBy(c, "POST"), j \in RequestsBy(d, "DELETE") :
                       net[i].sid = net[j].sid) =>
                      readers'[c].state # "reading"]_vars

\* C19 -- once endSession has issued the termination request of a session
\* identifier, no chat request is issued with that identifier.
C19_NoChatAfterTermination ==
    \A i, j \in 1..Len(net) :
        (i < j /\ net[i].method = "DELETE" /\ net[j].method = "POST") =>
            net[j].sid # net[i].sid

====
